---- MODULE Spec2Model ----
(***************************************************************************)
(* Slot reservation and occupancy reconciliation of the parking backend:   *)
(* the Redis-locked booking state machine (booking_service.py), the        *)
(* hysteresis-filtered occupancy reconciler (computer_vision_service.py)   *)
(* and the session lifecycle (session_service.py).                         *)
(*                                                                         *)
(* Request handlers run in a thread pool, so each handler is a process     *)
(* whose steps are its interactions with the shared stores (one Redis      *)
(* command, one database read, one commit).  Everything a handler does     *)
(* between two such interactions is local and belongs to the step.         *)
(***************************************************************************)
EXTENDS Integers, Sequences, FiniteSets, TLC

\* ------------------------------------------------------------------ bounds
\* The clock counts ticks, TicksPerTtl of them to the lock's TTL, up to MaxTime.
MaxTime == 3
TicksPerTtl == 1
\* Rows the bookings table and the parking_sessions table may hold: where the
\* booking state machine runs alone, where the reconciler runs alone, and where
\* both run together.
MaxBookings == 3
MaxSessions == 2
MaxBookingsTogether == 1
MaxSessionsTogether == 1
\* Frames of one kind in a row that the model follows.
MaxCount == 4
\* Whole minutes a priced session may last, and characters a plate may have,
\* where the pure functions are evaluated on their own.
MaxMinutes == 90
MaxLen == 3

\* ------------------------------------------------------- program constants
lock_ttl == 60

OCCUPIED_FRAME_THRESHOLD == 3
EMPTY_FRAME_THRESHOLD == 3

SecondsPerTick == lock_ttl \div TicksPerTtl

\* ------------------------------------------------------------------- data
Drivers == {"A", "B"}
\* The one slot of the lot, and a slot id no row has.
Slots == {1}
NoSuchSlot == 1 + Cardinality(Slots)
SlotIds == Slots \cup {NoSuchSlot}
\* The live views the lot may have open at a time, each with a
\* ComputerVisionService instance of its own.
Instances == {1, 2}

None == "none"
NoTime == 0 - 1
\* plates are sequences of characters; the empty one is no plate
NoPlate == <<>>
NoLock == [holder |-> None, exp |-> NoTime]

\* vehicles table: the plate each driver has registered (stored normalized).
VehiclePlate(d) ==
    CASE d = "A" -> <<"A", "B", "1">>
      [] d = "B" -> <<"A", "B", "2">>
      [] OTHER   -> <<"C", "D", "3">>

\* The lot's opening hours, on the model's clock: open from tick open_time to
\* tick close_time inclusive.
open_time == 1
close_time == MaxTime

SlotStatuses == {"available", "occupied", "reserved", "unavailable"}
NonTerminal == {"initiated", "locked", "confirmed"}
Pending == {"initiated", "locked"}

VARIABLES
    now,         \* the clock, in ticks
    redisUp,     \* BookingService.redis is a client (TRUE) or None (FALSE)
    lock,        \* Redis: slot id -> the lock key's value and expiry, or NoLock
    slotStatus,  \* parking_slots.status, per slot
    bookings,    \* bookings table: row i has id i
    pc,          \* per driver: where its request handler stands
    req,         \* per driver: the handler's locals
    resp,        \* the response the latest step sent, if it ended a handler
    swPc,        \* cleanup_expired_bookings: where it stands
    sw,          \* cleanup_expired_bookings: its locals and pending writes
    cv,          \* ComputerVisionService: per instance, the state of each slot
    sessions,    \* parking_sessions table: row i has id i
    frames,      \* per instance and slot: what its latest frames showed, newest last
    event,       \* the transition the latest frame made _handle_status_change report
    call         \* a pure function evaluated on its own: arguments and result

visionVars == <<cv, sessions, frames, event>>
\* what no step of the application changes
fixed == <<redisUp, call>>
vars == <<now, fixed, lock, slotStatus, bookings, pc, req, resp, swPc, sw, visionVars>>

\* the slot state of an instance that is not running
NoSlotState == [status |-> None, last_published_status |-> None,
                occupied_count |-> 0, empty_count |-> 0, plate |-> NoPlate]
\* no call of _handle_status_change
NoEvent == [view |-> 0, slot |-> 0, old |-> None, new |-> None, plate |-> NoPlate,
            published |-> FALSE]
NoReq == [op |-> None, slot |-> 0, plate |-> <<>>, bid |-> 0, snapSlot |-> None]
NoResp == [driver |-> None, op |-> None, slot |-> 0, bid |-> 0, outcome |-> None]
\* todo: the rows the query returned, not yet visited; done: rows set EXPIRED in
\* the unit of work; loaded: the slot rows in its identity map, with the status
\* each was loaded with; dirty: slots whose status it has set to available.
NoSweep == [now |-> NoTime, todo |-> <<>>, done |-> {},
            loaded |-> [s \in Slots |-> None], dirty |-> {}]
NoCall == [fn |-> None]

\* ------------------------------------------------------- identity normalizer
Upper(c) ==
    CASE c = "a" -> "A" [] c = "b" -> "B" [] c = "c" -> "C" [] c = "d" -> "D"
      [] OTHER -> c

UpperAlnum == {"A", "B", "C", "D", "1", "2", "3"}

KeepAlnum(c) == c \in UpperAlnum

\* re.sub(r"[^A-Z0-9]", "", plate.upper()), "" for an empty plate
normalize_license_plate(plate) ==
    IF plate = <<>> THEN <<>>
    ELSE SelectSeq([i \in 1..Len(plate) |-> Upper(plate[i])], KeepAlnum)

\* ---------------------------------------------------------- distributed lock
\* an acquire that succeeds whether or not the key exists (SET without NX)
acquire_any(s) == TRUE

\* _acquire_lock: SET key value NX EX ttl; True without a store (fail-open)
acquire_ok(s) == (~redisUp) \/ lock[s] = NoLock

LockAfterAcquire(s, d) ==
    IF redisUp /\ lock[s] = NoLock
    THEN [lock EXCEPT ![s] = [holder |-> d, exp |-> now + TicksPerTtl]]
    ELSE lock

\* _release_lock: DEL key, whoever holds it; nothing without a store
release_lock(s) ==
    IF redisUp THEN [lock EXCEPT ![s] = NoLock] ELSE lock

\* ------------------------------------------------------ booking state machine
BookingIds == 1..Len(bookings)

InFlightInitiates == Cardinality({d \in Drivers : pc[d] \in {"i_validate", "i_commit"}})

lot_is_open == open_time <= now /\ now <= close_time

existing_booking(s) ==
    \E b \in BookingIds : bookings[b].slot = s /\ bookings[b].status \in NonTerminal

\* a validation that does not ask for other bookings of the slot
validate_without_booking_check(d, raw, s) ==
    IF normalize_license_plate(raw) # VehiclePlate(d) THEN "vehicle_not_found"
    ELSE IF s \notin Slots THEN "slot_not_found"
    ELSE IF slotStatus[s] \notin {"available", "reserved"} THEN "slot_unavailable"
    ELSE IF ~lot_is_open THEN "lot_closed"
    ELSE "ok"

\* _validate_booking_request: the first check that fails, in the code's order
validate_booking_request(d, raw, s) ==
    IF normalize_license_plate(raw) # VehiclePlate(d) THEN "vehicle_not_found"
    ELSE IF s \notin Slots THEN "slot_not_found"
    ELSE IF slotStatus[s] \notin {"available", "reserved"} THEN "slot_unavailable"
    ELSE IF ~lot_is_open THEN "lot_closed"
    ELSE IF existing_booking(s) THEN "conflict"
    ELSE "ok"

\* the handler of d goes on to `label`; no response yet
Goto(d, label, r) ==
    /\ pc' = [pc EXCEPT ![d] = label]
    /\ req' = [req EXCEPT ![d] = r]
    /\ resp' = NoResp

\* the handler of d ends and answers `outcome`
Finish(d, r, outcome) ==
    /\ pc' = [pc EXCEPT ![d] = "idle"]
    /\ req' = [req EXCEPT ![d] = NoReq]
    /\ resp' = [driver |-> d, op |-> r.op, slot |-> r.slot, bid |-> r.bid,
                outcome |-> outcome]

\* initiate_booking, step 1: the single SET NX attempt; 409 when it fails
InitiateAcquire(d, raw, s, cap) ==
    /\ pc[d] = "idle"
    /\ LET r == [NoReq EXCEPT !.op = "initiate", !.slot = s, !.plate = raw]
       IN IF acquire_ok(s)
          THEN /\ Len(bookings) + InFlightInitiates < cap
               /\ lock' = LockAfterAcquire(s, d)
               /\ Goto(d, "i_validate", r)
          ELSE /\ lock' = lock
               /\ Finish(d, r, "contention")
    /\ UNCHANGED <<now, fixed, slotStatus, bookings, swPc, sw, visionVars>>

\* initiate_booking, step 2: validation; a failure releases the lock
InitiateValidate(d) ==
    /\ pc[d] = "i_validate"
    /\ LET err == validate_booking_request(d, req[d].plate, req[d].slot)
       IN IF err = "ok"
          THEN /\ Goto(d, "i_commit", req[d])
               /\ UNCHANGED lock
          ELSE /\ lock' = release_lock(req[d].slot)
               /\ Finish(d, req[d], err)
    /\ UNCHANGED <<now, fixed, slotStatus, bookings, swPc, sw, visionVars>>

\* a booking row that expires the moment it is created
booking_expiring_now(d, raw, s) ==
    [driver |-> d, plate |-> normalize_license_plate(raw), slot |-> s,
     status |-> "initiated", expires_at |-> now, canceled_at |-> NoTime]

\* the Booking row initiate_booking builds
NewBooking(d, raw, s) ==
    [driver |-> d, plate |-> normalize_license_plate(raw), slot |-> s,
     status |-> "initiated", expires_at |-> now + TicksPerTtl,
     canceled_at |-> NoTime]

\* initiate_booking, step 3: db.add, db.commit; the lock stays
InitiateCommit(d) ==
    /\ pc[d] = "i_commit"
    /\ bookings' = Append(bookings, NewBooking(d, req[d].plate, req[d].slot))
    /\ Finish(d, [req[d] EXCEPT !.bid = Len(bookings) + 1], "created")
    /\ UNCHANGED <<now, fixed, lock, slotStatus, swPc, sw, visionVars>>

\* initiate_booking, step 3 when the commit raises: release, rollback, 500
InitiateCommitFails(d) ==
    /\ pc[d] = "i_commit"
    /\ lock' = release_lock(req[d].slot)
    /\ Finish(d, req[d], "error500")
    /\ UNCHANGED <<now, fixed, slotStatus, bookings, swPc, sw, visionVars>>

SetStatus(bs, b, st) == [bs EXCEPT ![b].status = st]

\* confirm_booking's choice once the booking is loaded: the answer, or the
\* branch to run
confirm_branch(d, b) ==
    LET bk == bookings[b]
    IN IF bk.driver # d THEN "not_found"
       ELSE IF bk.status \notin Pending THEN "bad_status"
       ELSE IF bk.expires_at # NoTime /\ bk.expires_at < now THEN "c_expire"
       ELSE IF slotStatus[bk.slot] \notin {"available", "reserved"} THEN "c_cancel"
       ELSE "c_commit"

\* confirm_booking, step 1: load the booking, check ownership, status and
\* expiry, then re-read the slot
ConfirmLoad(d, b) ==
    /\ pc[d] = "idle"
    /\ b \in BookingIds
    /\ LET br == confirm_branch(d, b)
           r == [NoReq EXCEPT !.op = "confirm", !.bid = b, !.slot = bookings[b].slot]
       IN IF br \in {"not_found", "bad_status"}
          THEN Finish(d, r, br)
          ELSE IF br = "c_expire"
          THEN Goto(d, br, r)
          ELSE Goto(d, br, [r EXCEPT !.snapSlot = slotStatus[r.slot]])
    /\ UNCHANGED <<now, fixed, lock, slotStatus, bookings, swPc, sw, visionVars>>

\* confirm_booking past expiry: booking EXPIRED, db.commit, _release_lock, 410
ConfirmExpire(d) ==
    /\ pc[d] = "c_expire"
    /\ bookings' = SetStatus(bookings, req[d].bid, "expired")
    /\ lock' = release_lock(req[d].slot)
    /\ Finish(d, req[d], "gone")
    /\ UNCHANGED <<now, fixed, slotStatus, swPc, sw, visionVars>>

\* confirm_booking, slot no longer available: booking CANCELED, db.commit,
\* _release_lock, 400
ConfirmCancel(d) ==
    /\ pc[d] = "c_cancel"
    /\ bookings' = SetStatus(bookings, req[d].bid, "canceled")
    /\ lock' = release_lock(req[d].slot)
    /\ Finish(d, req[d], "slot_unavailable")
    /\ UNCHANGED <<now, fixed, slotStatus, swPc, sw, visionVars>>

\* The UPDATE of parking_slots a unit of work flushes: the status column is
\* written only when the value assigned differs from the value loaded.
SlotAfterAssign(s, loaded, assigned) ==
    IF loaded # assigned THEN [slotStatus EXCEPT ![s] = assigned] ELSE slotStatus

\* confirm_booking: booking CONFIRMED, slot reserved, db.commit, _release_lock
ConfirmCommit(d) ==
    /\ pc[d] = "c_commit"
    /\ bookings' = SetStatus(bookings, req[d].bid, "confirmed")
    /\ slotStatus' = SlotAfterAssign(req[d].slot, req[d].snapSlot, "reserved")
    /\ lock' = release_lock(req[d].slot)
    /\ Finish(d, req[d], "confirmed")
    /\ UNCHANGED <<now, fixed, swPc, sw, visionVars>>

\* what a failed commit of confirm_booking does to the lock: nothing
lock_after_failed_confirm(s) == lock

\* A commit of confirm_booking raises.  Inside the try block the handler rolls
\* back and answers 500; the commit of the expiry branch is outside it and the
\* exception reaches the framework, which answers 500.
ConfirmCommitFails(d) ==
    /\ pc[d] \in {"c_commit", "c_cancel", "c_expire"}
    /\ lock' = lock_after_failed_confirm(req[d].slot)
    /\ Finish(d, req[d], "error500")
    /\ UNCHANGED <<now, fixed, slotStatus, bookings, swPc, sw, visionVars>>

\* a cancel_booking without the early return for expired and canceled bookings
cancel_any(d, b) == IF bookings[b].driver # d THEN "not_found" ELSE "k_commit"

\* cancel_booking's choice once the booking is loaded
cancel_branch(d, b) ==
    IF bookings[b].driver # d THEN "not_found"
    ELSE IF bookings[b].status \in {"expired", "canceled"} THEN "noop"
    ELSE "k_commit"

\* cancel_booking, step 1: load the booking (a terminal one is returned as it
\* is) and the slot
CancelLoad(d, b) ==
    /\ pc[d] = "idle"
    /\ b \in BookingIds
    /\ LET br == cancel_branch(d, b)
           r == [NoReq EXCEPT !.op = "cancel", !.bid = b, !.slot = bookings[b].slot]
       IN IF br = "k_commit"
          THEN Goto(d, br, [r EXCEPT !.snapSlot = slotStatus[r.slot]])
          ELSE Finish(d, r, br)
    /\ UNCHANGED <<now, fixed, lock, slotStatus, bookings, swPc, sw, visionVars>>

\* cancel_booking: booking CANCELED, a reserved slot back to available,
\* db.commit, _release_lock
CancelCommit(d) ==
    /\ pc[d] = "k_commit"
    /\ bookings' = [bookings EXCEPT ![req[d].bid].status = "canceled",
                                    ![req[d].bid].canceled_at = now]
    /\ slotStatus' = IF req[d].snapSlot = "reserved"
                     THEN SlotAfterAssign(req[d].slot, req[d].snapSlot, "available")
                     ELSE slotStatus
    /\ lock' = release_lock(req[d].slot)
    /\ Finish(d, req[d], "canceled")
    /\ UNCHANGED <<now, fixed, swPc, sw, visionVars>>

\* cancel_booking when the commit raises: rollback, 500
CancelCommitFails(d) ==
    /\ pc[d] = "k_commit"
    /\ Finish(d, req[d], "error500")
    /\ UNCHANGED <<now, fixed, lock, slotStatus, bookings, swPc, sw, visionVars>>

\* ------------------------------------------------------------ expiry sweeper
RECURSIVE IdsWhere(_, _)
\* the ids 1..n, ascending, of the rows that are pending and past expiry at t
IdsWhere(n, t) ==
    IF n = 0 THEN <<>>
    ELSE LET rest == IdsWhere(n - 1, t)
         IN IF bookings[n].status \in Pending /\ bookings[n].expires_at # NoTime
               /\ bookings[n].expires_at < t
            THEN Append(rest, n) ELSE rest

\* cleanup_expired_bookings: the query
SweepQuery ==
    /\ swPc = "idle"
    /\ swPc' = "s_loop"
    /\ sw' = [NoSweep EXCEPT !.now = now, !.todo = IdsWhere(Len(bookings), now)]
    /\ resp' = NoResp
    /\ UNCHANGED <<now, fixed, lock, slotStatus, bookings, pc, req, visionVars>>

\* cleanup_expired_bookings: one turn of the loop.  The row is set EXPIRED and
\* the slot set available in the unit of work (written at the final commit);
\* the lock is deleted at once.
SweepOne ==
    /\ swPc = "s_loop"
    /\ sw.todo # <<>>
    /\ LET b == Head(sw.todo)
           s == bookings[b].slot
           seen == IF sw.loaded[s] = None THEN slotStatus[s] ELSE sw.loaded[s]
           cur == IF s \in sw.dirty THEN "available" ELSE seen
       IN /\ sw' = [sw EXCEPT !.todo = Tail(sw.todo),
                              !.done = sw.done \cup {b},
                              !.loaded[s] = seen,
                              !.dirty = IF cur = "reserved" THEN sw.dirty \cup {s}
                                        ELSE sw.dirty]
          /\ lock' = release_lock(s)
    /\ resp' = NoResp
    /\ UNCHANGED <<now, fixed, slotStatus, bookings, pc, req, swPc, visionVars>>

\* cleanup_expired_bookings: db.commit writes what the loop changed
SweepCommit ==
    /\ swPc = "s_loop"
    /\ sw.todo = <<>>
    /\ bookings' = [b \in BookingIds |->
                       IF b \in sw.done THEN [bookings[b] EXCEPT !.status = "expired"]
                       ELSE bookings[b]]
    /\ slotStatus' = [s \in Slots |->
                         IF s \in sw.dirty THEN "available" ELSE slotStatus[s]]
    /\ swPc' = "idle"
    /\ sw' = NoSweep
    /\ resp' = NoResp
    /\ UNCHANGED <<now, fixed, lock, pc, req, visionVars>>

\* -------------------------------------------------------------------- clock
Quiescent == swPc = "idle" /\ \A d \in Drivers : pc[d] = "idle"

\* Time passes; Redis drops the keys whose TTL has run out.  A handler runs
\* to its end within a tick.
Tick ==
    /\ now < MaxTime
    /\ Quiescent
    /\ now' = now + 1
    /\ lock' = [s \in SlotIds |->
                   IF lock[s] # NoLock /\ lock[s].exp <= now + 1 THEN NoLock
                   ELSE lock[s]]
    /\ resp' = NoResp
    /\ UNCHANGED <<fixed, slotStatus, bookings, pc, req, swPc, sw, visionVars>>

\* -------------------------------------------------------- session lifecycle
Vehicles == <<"A", "B", "C">>

Min2(a, b) == IF a < b THEN a ELSE b

\* levenshtein_distance's inner loop: current_row, extended from column j on
RECURSIVE LevRow(_, _, _, _, _)
LevRow(c1, s2, prev, cur, j) ==
    IF j > Len(s2) THEN cur
    ELSE LET insertions == prev[j + 1] + 1
             deletions == cur[j] + 1
             substitutions == prev[j] + (IF c1 # s2[j] THEN 1 ELSE 0)
         IN LevRow(c1, s2, prev,
                   Append(cur, Min2(Min2(insertions, deletions), substitutions)),
                   j + 1)

\* levenshtein_distance's outer loop: previous_row after the characters i.. of s1
RECURSIVE LevRows(_, _, _, _)
LevRows(s1, s2, prev, i) ==
    IF i > Len(s1) THEN prev
    ELSE LevRows(s1, s2, LevRow(s1[i], s2, prev, <<i>>, 1), i + 1)

levenshtein_distance(a, b) ==
    LET s1 == IF Len(a) < Len(b) THEN b ELSE a
        s2 == IF Len(a) < Len(b) THEN a ELSE b
    IN IF Len(s2) = 0 THEN Len(s1)
       ELSE LET last == LevRows(s1, s2, [j \in 1..(Len(s2) + 1) |-> j - 1], 1)
            IN last[Len(last)]

\* a threshold test that lets distance 2 through (<= in place of <)
within_two(distance) == distance <= 2

\* the threshold test of fuzzy_match_license_plate
within_threshold(distance) == distance < 2

\* fuzzy_match_license_plate against a vehicles table (a sequence of stored
\* plates): the index of the vehicle found, 0 for none
fuzzy_match_license_plate(detected, plates) ==
    LET nd == normalize_license_plate(detected)
        exact == {i \in 1..Len(plates) : plates[i] = nd}
        fuzzy == {i \in 1..Len(plates) :
                     within_threshold(
                         levenshtein_distance(nd, normalize_license_plate(plates[i])))}
        least(S) == CHOOSE i \in S : \A k \in S : i <= k
    IN IF exact # {} THEN least(exact)
       ELSE IF fuzzy # {} THEN least(fuzzy)
       ELSE 0

StoredPlates == [i \in 1..Len(Vehicles) |-> VehiclePlate(Vehicles[i])]

SessionIds == 1..Len(sessions)

\* a lookup that finds no active session, whatever the table holds
no_active_sessions(ss, s) == {}

\* the rows the query for the ACTIVE sessions of a slot returns
ActiveSessions(ss, s) ==
    {i \in 1..Len(ss) : ss[i].slot = s /\ ss[i].status = "active"}

LeastOf(S) == CHOOSE i \in S : \A k \in S : i <= k

\* an arrival that never looks for a booking: every session a walk-in
no_booking_for(plate, s) == 0

\* a lookup that takes the first booking of the plate and slot, in any status
any_booking_for(plate, s) ==
    LET m == {b \in 1..Len(bookings) : /\ bookings[b].plate = normalize_license_plate(plate)
                                       /\ bookings[b].slot = s}
    IN IF m = {} THEN 0 ELSE CHOOSE b \in m : \A k \in m : b <= k

\* the CONFIRMED booking detect_license_plate_arrival attaches: 0 for none
confirmed_booking_for(plate, s) ==
    LET m == {b \in BookingIds : /\ bookings[b].plate = normalize_license_plate(plate)
                                 /\ bookings[b].slot = s
                                 /\ bookings[b].status = "confirmed"}
    IN IF m = {} THEN 0 ELSE LeastOf(m)

\* detect_license_plate_arrival: the sessions table afterwards.  A row's
\* total_duration_minutes is kept in seconds (total_duration_seconds) and its
\* parking_cost in halves of the currency unit, so that both are integers.
detect_arrival_among(plates, ss, plate, s, t) ==
    LET v == fuzzy_match_license_plate(plate, plates)
    IN IF v = 0 THEN ss
       ELSE IF s \notin Slots THEN ss
       ELSE IF ActiveSessions(ss, s) # {} THEN ss
       ELSE Append(ss, [booking_id |-> confirmed_booking_for(plate, s),
                        vehicle |-> v, slot |-> s,
                        plate |-> normalize_license_plate(plate),
                        start_time |-> t, end_time |-> NoTime,
                        status |-> "active",
                        total_duration_seconds |-> NoTime, parking_cost |-> NoTime])

\* detect_license_plate_arrival with the vehicles table of the application
detect_license_plate_arrival(ss, plate, s, t) ==
    detect_arrival_among(StoredPlates, ss, plate, s, t)

\* blocks rounded down (int in place of math.ceil)
blocks_floor(seconds) == seconds \div 1800

\* math.ceil(duration_minutes / 30.0), the duration in seconds
blocks_of(seconds) == (seconds + 1799) \div 1800

\* calculate_session_cost: price_per_hour * (blocks * 30 / 60.0), in halves of
\* the currency unit so that it stays an integer
calculate_session_cost(price, seconds) == price * blocks_of(seconds)

\* the lot's price_per_hour
price_per_hour == 10

\* end_session on row i
end_session(ss, i, t) ==
    IF ss[i].status # "active" THEN ss
    ELSE LET secs == (t - ss[i].start_time) * SecondsPerTick
         IN [ss EXCEPT ![i].end_time = t, ![i].status = "completed",
                       ![i].total_duration_seconds = secs,
                       ![i].parking_cost = calculate_session_cost(price_per_hour, secs)]

\* a departure that closes the first active session, of whatever slot
end_first_active_session(ss, s, t) ==
    LET act == {k \in 1..Len(ss) : ss[k].status = "active"}
    IN IF act = {} THEN ss
       ELSE end_session(ss, CHOOSE k \in act : \A m \in act : k <= m, t)

\* end_session_by_slot
end_session_by_slot(ss, s, t) ==
    IF ActiveSessions(ss, s) = {} THEN ss
    ELSE end_session(ss, LeastOf(ActiveSessions(ss, s)), t)

\* a session service that does nothing with the transitions handed to it
ignore_status_change(ss, s, old, new, plate, t) == ss

\* handle_slot_status_change
handle_slot_status_change(ss, s, old, new, plate, t) ==
    IF old = "available" /\ new = "occupied"
    THEN IF plate # NoPlate THEN detect_license_plate_arrival(ss, plate, s, t) ELSE ss
    ELSE IF old = "occupied" /\ new = "available"
    THEN end_session_by_slot(ss, s, t)
    ELSE ss

\* ----------------------------------------------------- occupancy reconciler
\* a reconciler for which every status is open to what the frames show
every_status == SlotStatuses

\* self.mutable_statuses
mutable_statuses == {"available", "occupied"}

\* ComputerVisionService.__init__: the state of a slot, from its row
NewSlotState(st) ==
    [status |-> st, last_published_status |-> st,
     occupied_count |-> 0, empty_count |-> 0, plate |-> NoPlate]

\* a threshold test that is off by one frame
reached_one_early(count) == count >= OCCUPIED_FRAME_THRESHOLD - 1

\* a threshold test that wants one frame more
reached_one_late(count) == count >= EMPTY_FRAME_THRESHOLD + 1

\* the hysteresis tests of process_frame
occupied_reached(count) == count >= OCCUPIED_FRAME_THRESHOLD
empty_reached(count) == count >= EMPTY_FRAME_THRESHOLD

\* the last frames shown for a slot, at most three of them
Remember(fs, occupied) ==
    LET all == Append(fs, occupied)
    IN IF Len(all) > 3 THEN Tail(all) ELSE all

\* process_frame for one slot: `occupied` says whether a tracked vehicle's
\* centre lies in the polygon, `read` is the plate text held for that vehicle
\* (NoPlate when OCR has read none).
ProcessFrame(i, s, occupied, read, cap) ==
    /\ cv[i][s] # NoSlotState
    /\ LET st == cv[i][s]
       IN IF st.last_published_status \notin mutable_statuses
          THEN /\ frames' = [frames EXCEPT ![i][s] = Remember(frames[i][s], occupied)]
               /\ event' = NoEvent
               /\ UNCHANGED <<cv, sessions, slotStatus>>
          ELSE
            LET plate == IF ~occupied THEN NoPlate
                         ELSE IF read # NoPlate THEN read ELSE st.plate
                occ == IF occupied THEN st.occupied_count + 1 ELSE 0
                emp == IF occupied THEN 0 ELSE st.empty_count + 1
                status == IF occupied
                          THEN IF st.status # "occupied" /\ occupied_reached(occ)
                               THEN "occupied" ELSE st.status
                          ELSE IF st.status # "available" /\ empty_reached(emp)
                               THEN "available" ELSE st.status
                \* the two direct calls of detect_license_plate_arrival
                ss1 == IF occupied /\ plate # NoPlate
                          /\ (status # st.status
                              \/ (st.status = "occupied" /\ ActiveSessions(sessions, s) = {}))
                       THEN detect_license_plate_arrival(sessions, plate, s, now)
                       ELSE sessions
                flip == status # st.last_published_status
                \* _handle_status_change
                ss2 == IF flip
                       THEN handle_slot_status_change(ss1, s, st.last_published_status,
                                                      status, plate, now)
                       ELSE ss1
            IN /\ occ <= MaxCount /\ emp <= MaxCount
               /\ Len(ss2) <= cap
               /\ cv' = [cv EXCEPT ![i][s] = [status |-> status,
                                              last_published_status |-> status,
                                              occupied_count |-> occ, empty_count |-> emp,
                                              plate |-> plate]]
               /\ slotStatus' = IF flip THEN [slotStatus EXCEPT ![s] = status]
                                ELSE slotStatus
               /\ sessions' = ss2
               \* what is handed to the session service, and whether the
               \* payload went out on the availability channel
               /\ event' = IF flip
                            THEN [view |-> i, slot |-> s,
                                  old |-> st.last_published_status, new |-> status,
                                  plate |-> plate, published |-> redisUp]
                            ELSE NoEvent
               /\ frames' = [frames EXCEPT ![i][s] = Remember(frames[i][s], occupied)]
    /\ resp' = NoResp
    /\ UNCHANGED <<now, fixed, lock, bookings, pc, req, swPc, sw>>

\* _initialize_cv_service: live view i starts (anew, if it was open) with a new
\* instance, its slot states read from the slot rows
StartVision(i) ==
    /\ cv' = [cv EXCEPT ![i] = [s \in Slots |-> NewSlotState(slotStatus[s])]]
    /\ frames' = [frames EXCEPT ![i] = [s \in Slots |-> <<>>]]
    /\ event' = NoEvent
    /\ resp' = NoResp
    /\ UNCHANGED <<now, fixed, lock, slotStatus, bookings, pc, req, swPc, sw, sessions>>

\* ------------------------------------------- pure functions on their own
appVars == <<now, redisUp, lock, slotStatus, bookings, pc, req, resp, swPc, sw, visionVars>>

\* calculate_session_cost on a session of call.minutes whole minutes
EvalCost ==
    /\ call.fn = "cost"
    /\ ~call.done
    /\ call' = [call EXCEPT !.done = TRUE,
                            !.result = calculate_session_cost(call.price, call.minutes * 60)]
    /\ UNCHANGED appVars

\* fuzzy_match_license_plate of the reading call.a against a vehicles table
\* whose one row stores the plate call.b
EvalMatch ==
    /\ call.fn = "match"
    /\ ~call.done
    /\ call' = [call EXCEPT !.done = TRUE,
                            !.result = (fuzzy_match_license_plate(call.a, <<call.b>>) # 0)]
    /\ UNCHANGED appVars

\* detect_license_plate_arrival called on its own: the reading call.plate, the
\* slot call.slot, the vehicles table call.vehicles; call.result is the vehicle
\* matched and call.booking what its query for a CONFIRMED booking returns for
\* that plate and slot id
EvalArrival ==
    /\ call.fn = "arrival"
    /\ ~call.done
    /\ sessions' = detect_arrival_among(call.vehicles, sessions, call.plate, call.slot, now)
    /\ call' = [call EXCEPT !.done = TRUE,
                            !.result = fuzzy_match_license_plate(call.plate, call.vehicles),
                            !.booking = confirmed_booking_for(call.plate, call.slot)]
    /\ UNCHANGED <<now, redisUp, lock, slotStatus, bookings, pc, req, resp, swPc, sw,
                   cv, frames, event>>

\* handle_slot_status_change called on its own, for the transition of call.slot
\* from call.old to call.new with the plate call.plate
EvalTransition ==
    /\ call.fn = "transition"
    /\ ~call.done
    /\ sessions' = handle_slot_status_change(sessions, call.slot, call.old, call.new,
                                             call.plate, now)
    /\ call' = [call EXCEPT !.done = TRUE]
    /\ UNCHANGED <<now, redisUp, lock, slotStatus, bookings, pc, req, resp, swPc, sw,
                   cv, frames, event>>

\* ------------------------------------------------------------ specifications
\* BookingCreate.validate_license_plate: a plate is sent as three characters
validate_license_plate(v) == Len(v) = 3

Lower(c) ==
    CASE c = "A" -> "a" [] c = "B" -> "b" [] c = "C" -> "c" [] c = "D" -> "d"
      [] OTHER -> c

\* what a driver may send: the own plate typed in lower case, or a plate not
\* registered
OwnPlate(d) == [k \in 1..Len(VehiclePlate(d)) |-> Lower(VehiclePlate(d)[k])]
RawPlates(d) == {raw \in {OwnPlate(d), <<"d", "-", "1">>} : validate_license_plate(raw)}

\* what OCR may read off a vehicle in the slot: A's plate, a misreading of it one
\* character off, a plate of no registered vehicle
Readings == {VehiclePlate("A"), <<"A", "B", "3">>, <<"D", "D", "D">>}

\* prices per hour, and the characters plates are typed and read in
Prices == {7, 10}
PlateChars == {"B", "b", "1", "-"}
Plates == UNION {[1..k -> PlateChars] : k \in 0..MaxLen}

\* empty tables, no lock, no request under way
InitTables ==
    /\ now = 0
    /\ lock = [s \in SlotIds |-> NoLock]
    /\ slotStatus = [s \in Slots |-> "available"]
    /\ bookings = <<>>
    /\ pc = [d \in Drivers |-> "idle"]
    /\ req = [d \in Drivers |-> NoReq]
    /\ resp = NoResp
    /\ swPc = "idle"
    /\ sw = NoSweep

\* get_redis() has returned a client
InitBooking == redisUp = TRUE /\ InitTables

InitVisionOff ==
    /\ cv = [i \in Instances |-> [s \in Slots |-> NoSlotState]]
    /\ sessions = <<>>
    /\ frames = [i \in Instances |-> [s \in Slots |-> <<>>]]
    /\ event = NoEvent

\* live view 1 is open
InitVision ==
    /\ cv = [i \in Instances |->
                [s \in Slots |-> IF i = 1 THEN NewSlotState(slotStatus[s])
                                 ELSE NoSlotState]]
    /\ sessions = <<>>
    /\ frames = [i \in Instances |-> [s \in Slots |-> <<>>]]
    /\ event = NoEvent

\* the steps of initiate_booking for d, requests drawn from raws x slots
InitiateStep(d, raws, slots, cap) ==
    \/ \E raw \in raws, s \in slots : InitiateAcquire(d, raw, s, cap)
    \/ InitiateValidate(d)
    \/ InitiateCommit(d)
    \/ InitiateCommitFails(d)

\* the steps of confirm_booking for d while the slot can still be reserved
ConfirmStep(d) ==
    \/ \E b \in BookingIds : ConfirmLoad(d, b)
    \/ ConfirmExpire(d)
    \/ ConfirmCommit(d)
    \/ ConfirmCommitFails(d)

\* the steps of cancel_booking for d
CancelStep(d) ==
    \/ \E b \in BookingIds : CancelLoad(d, b)
    \/ CancelCommit(d)
    \/ CancelCommitFails(d)

SweepStep == SweepQuery \/ SweepOne \/ SweepCommit

\* a frame of one of the live views `views`, for one slot
FrameStep(views, reads, cap) ==
    \E i \in views, s \in Slots :
        \/ \E read \in reads \cup {NoPlate} : ProcessFrame(i, s, TRUE, read, cap)
        \/ ProcessFrame(i, s, FALSE, NoPlate, cap)

\* The booking state machine with a reachable lock store: two drivers, the
\* sweeper run at any time, the clock.  Nothing but these handlers writes the
\* slot row here, so confirm_booking always finds the slot available or
\* reserved; ConfirmCancel runs in Spec, where the reconciler writes it too.
InitB == InitBooking /\ InitVisionOff /\ call = NoCall

NextBooking ==
    \/ \E d \in Drivers : \/ InitiateStep(d, RawPlates(d), SlotIds, MaxBookings)
                          \/ ConfirmStep(d)
                          \/ CancelStep(d)
    \/ SweepStep
    \/ Tick

SpecBooking == InitB /\ [][NextBooking]_vars

\* Abandoned bookings: drivers who initiate and never confirm or cancel, in the
\* application as main.py starts it, where nothing runs
\* cleanup_expired_bookings.  A handler that has started runs to its end and
\* the clock goes on.
NextAbandon ==
    \/ \E d \in Drivers : InitiateStep(d, RawPlates(d), SlotIds, MaxBookings)
    \/ Tick

HandlerGoesOn(d) == InitiateValidate(d) \/ InitiateCommit(d) \/ InitiateCommitFails(d)

SpecAbandon ==
    /\ InitB
    /\ [][NextAbandon]_vars
    /\ WF_vars(Tick)
    /\ \A d \in Drivers : WF_vars(HandlerGoesOn(d))

\* The booking state machine while the lock store is unreachable: get_redis()
\* has returned None, every _acquire_lock answers True and no key is set.
InitOutage == redisUp = FALSE /\ InitTables /\ InitVisionOff /\ call = NoCall

NextOutage ==
    \/ \E d \in Drivers : \/ InitiateStep(d, RawPlates(d), SlotIds, MaxBookings)
                          \/ ConfirmStep(d)
                          \/ CancelStep(d)
    \/ Tick

SpecOutage == InitOutage /\ [][NextOutage]_vars

\* The reconciler and the session lifecycle, with one live view that may
\* start over.
InitV == InitBooking /\ InitVision /\ call = NoCall

NextVision == FrameStep({1}, Readings, MaxSessions) \/ StartVision(1) \/ Tick

SpecVision == InitV /\ [][NextVision]_vars

\* Two live views of the lot at a time.  process_frame runs to its end on the
\* event loop, so the frames of the two instances take turns.
NextViews ==
    \/ FrameStep(Instances, {VehiclePlate("A")}, MaxSessions)
    \/ \E i \in Instances : StartVision(i)
    \/ Tick

SpecViews == InitV /\ [][NextViews]_vars

\* One driver's requests and one live view that may start over at any time,
\* for a slot its owner has created as available or as unavailable.
InitLiveView ==
    /\ redisUp = TRUE
    /\ now = 0
    /\ lock = [s \in SlotIds |-> NoLock]
    /\ slotStatus \in [Slots -> {"available", "unavailable"}]
    /\ bookings = <<>>
    /\ pc = [d \in Drivers |-> "idle"]
    /\ req = [d \in Drivers |-> NoReq]
    /\ resp = NoResp
    /\ swPc = "idle"
    /\ sw = NoSweep
    /\ InitVision
    /\ call = NoCall

NextLiveView ==
    \/ \E d \in {"A"} : \/ InitiateStep(d, {OwnPlate(d)}, Slots, MaxBookingsTogether)
                        \/ ConfirmStep(d)
                        \/ ConfirmCancel(d)
                        \/ CancelStep(d)
    \/ FrameStep({1}, {VehiclePlate("A")}, MaxSessionsTogether)
    \/ StartVision(1)
    \/ Tick

SpecLiveView == InitLiveView /\ [][NextLiveView]_vars

\* detect_license_plate_arrival over readings, slots, vehicles tables and
\* bookings tables.  The readings: A's plate, A's plate as text not yet cleaned,
\* a misreading one character off, a plate far from every vehicle's, a text
\* without a letter or digit.  The vehicles: the application's, or one vehicle
\* whose plate is a single character.  The bookings: up to two rows for the
\* slot, of A or B, in any status a row can have.
ArrivalReadings ==
    {VehiclePlate("A"), <<"a", "b", "-", "1">>, <<"A", "B", "3">>, <<"D", "D", "D">>,
     <<"-", "-">>}

VehicleTables == {StoredPlates, << <<"B">> >>}

BookingRows ==
    {[driver |-> d, plate |-> VehiclePlate(d), slot |-> s, status |-> st,
      expires_at |-> TicksPerTtl, canceled_at |-> NoTime] :
        d \in Drivers, s \in Slots,
        st \in {"initiated", "confirmed", "expired", "canceled"}}

BookingTables == UNION {[1..n -> BookingRows] : n \in 0..2}

InitArrival ==
    /\ redisUp = TRUE
    /\ now \in 0..MaxTime
    /\ lock = [s \in SlotIds |-> NoLock]
    /\ slotStatus = [s \in Slots |-> "available"]
    /\ bookings \in BookingTables
    /\ pc = [d \in Drivers |-> "idle"]
    /\ req = [d \in Drivers |-> NoReq]
    /\ resp = NoResp
    /\ swPc = "idle"
    /\ sw = NoSweep
    /\ InitVisionOff
    /\ call \in {[fn |-> "arrival", plate |-> p, slot |-> s, vehicles |-> v,
                   done |-> FALSE, result |-> 0, booking |-> 0] :
                    p \in ArrivalReadings, s \in SlotIds, v \in VehicleTables}

SpecArrival == InitArrival /\ [][EvalArrival]_vars

\* handle_slot_status_change over every pair of statuses, either slot id, with
\* and without a plate, on a sessions table that holds an earlier, completed
\* session of the slot, a session still active, both or neither.
SessionRow(st) ==
    [booking_id |-> 0, vehicle |-> 1, slot |-> 1, plate |-> VehiclePlate("A"),
     start_time |-> 0,
     end_time |-> IF st = "active" THEN NoTime ELSE 0,
     status |-> st,
     total_duration_seconds |-> IF st = "active" THEN NoTime ELSE 0,
     parking_cost |-> IF st = "active" THEN NoTime ELSE 0]

SessionTables ==
    {<<>>, <<SessionRow("active")>>, <<SessionRow("completed")>>,
     <<SessionRow("completed"), SessionRow("active")>>}

InitTransition ==
    /\ redisUp = TRUE
    /\ now \in 0..MaxTime
    /\ lock = [s \in SlotIds |-> NoLock]
    /\ slotStatus = [s \in Slots |-> "available"]
    /\ bookings = <<>>
    /\ pc = [d \in Drivers |-> "idle"]
    /\ req = [d \in Drivers |-> NoReq]
    /\ resp = NoResp
    /\ swPc = "idle"
    /\ sw = NoSweep
    /\ cv = [i \in Instances |-> [s \in Slots |-> NoSlotState]]
    /\ frames = [i \in Instances |-> [s \in Slots |-> <<>>]]
    /\ event = NoEvent
    /\ sessions \in SessionTables
    /\ call \in {[fn |-> "transition", slot |-> s, old |-> o, new |-> n, plate |-> p,
                   done |-> FALSE] :
                    s \in SlotIds, o \in SlotStatuses, n \in SlotStatuses,
                    p \in {NoPlate, VehiclePlate("A")}}

SpecTransition == InitTransition /\ [][EvalTransition]_vars

\* calculate_session_cost, over prices and whole minutes
InitCost ==
    /\ InitBooking /\ InitVisionOff
    /\ call \in {[fn |-> "cost", price |-> p, minutes |-> m, done |-> FALSE, result |-> 0] :
                    p \in Prices, m \in 0..MaxMinutes}

SpecCost == InitCost /\ [][EvalCost]_vars

\* fuzzy_match_license_plate, over pairs of plates
InitPlate ==
    /\ InitBooking /\ InitVisionOff
    /\ call \in {[fn |-> "match", a |-> a, b |-> b, done |-> FALSE, result |-> FALSE] :
                    a \in Plates, b \in Plates}

SpecPlate == InitPlate /\ [][EvalMatch]_vars

\* The application as main.py starts it: the request handlers of two drivers,
\* one live view feeding the reconciler since before the first booking, the
\* clock.  Nothing in it runs cleanup_expired_bookings.
Init == InitBooking /\ InitVision /\ call = NoCall

Next ==
    \/ \E d \in Drivers : \/ InitiateStep(d, {OwnPlate(d)}, Slots, MaxBookingsTogether)
                          \/ ConfirmStep(d)
                          \/ ConfirmCancel(d)
                          \/ CancelStep(d)
    \/ FrameStep({1}, {VehiclePlate("A")}, MaxSessionsTogether)
    \/ Tick

Spec == Init /\ [][Next]_vars

\* ------------------------------------------------------------------ claims
\* what a step of d's handlers shows of the call it serves
InitiateCalled(d, s) ==
    /\ pc[d] = "idle"
    /\ \/ pc'[d] = "i_validate" /\ req'[d].slot = s
       \/ pc'[d] = "idle" /\ resp'.driver = d /\ resp'.op = "initiate" /\ resp'.slot = s

ConfirmCalled(d, b) ==
    /\ pc[d] = "idle"
    /\ \/ pc'[d] \in {"c_expire", "c_cancel", "c_commit"} /\ req'[d].bid = b
       \/ pc'[d] = "idle" /\ resp'.driver = d /\ resp'.op = "confirm" /\ resp'.bid = b

CancelCalled(d, b) ==
    /\ pc[d] = "idle"
    /\ \/ pc'[d] = "k_commit" /\ req'[d].bid = b
       \/ pc'[d] = "idle" /\ resp'.driver = d /\ resp'.op = "cancel" /\ resp'.bid = b

NonTerminalOn(s) ==
    {b \in BookingIds : bookings[b].slot = s /\ bookings[b].status \in NonTerminal}

\* C1: for every slot, in every reachable state, at most one booking of the
\* slot is initiated, locked or confirmed, whatever the interleaving of
\* initiate, confirm, cancel and the sweep.
OneNonTerminalBookingPerSlot == \A s \in Slots : Cardinality(NonTerminalOn(s)) <= 1

\* C2: an initiate on a slot whose lock key exists gets no further than its one
\* acquire attempt: it answers contention, and the lock, the slot status and
\* the bookings are after it what they were before.
ContentionChangesNothing ==
    [][\A d \in Drivers : \A s \in SlotIds :
          (InitiateCalled(d, s) /\ lock[s] # NoLock) =>
              /\ pc'[d] = "idle"
              /\ resp'.outcome = "contention"
              /\ lock' = lock
              /\ slotStatus' = slotStatus
              /\ bookings' = bookings]_vars

\* B is refused while A, holding the lock, is about to commit its booking
ContentionSeen ==
    /\ resp.op = "initiate" /\ resp.outcome = "contention" /\ resp.driver = "B"
    /\ lock[resp.slot].holder = "A"
    /\ pc["A"] = "i_commit"

\* C3: a confirm by the owner after the booking's expires_at answers Gone and
\* leaves the booking expired, whatever has happened to the booking before
\* (a failing storage write aside).
ConfirmPastExpiryIsGone ==
    (/\ resp.op = "confirm"
     /\ resp.outcome \notin {"not_found", "error500"}
     /\ bookings[resp.bid].expires_at < now)
    => (resp.outcome = "gone" /\ bookings[resp.bid].status = "expired")

\* C4: a cancel by the owner of a booking already expired or canceled ends at
\* once without an error and changes neither the bookings, nor the slot
\* status, nor any lock.
CancelOfTerminalIsNoOp ==
    [][\A d \in Drivers : \A b \in BookingIds :
          (/\ CancelCalled(d, b)
           /\ bookings[b].driver = d
           /\ bookings[b].status \in {"expired", "canceled"}) =>
              /\ pc'[d] = "idle"
              /\ resp'.outcome = "noop"
              /\ bookings' = bookings
              /\ slotStatus' = slotStatus
              /\ lock' = lock]_vars

\* a canceled booking canceled again while another driver holds the slot's lock
NoOpUnderForeignLock ==
    /\ resp.op = "cancel" /\ resp.outcome = "noop"
    /\ bookings[resp.bid].status = "canceled"
    /\ lock[resp.slot] # NoLock
    /\ lock[resp.slot].holder # resp.driver

\* the frame a step of instance i has processed for s, when it has processed one
FrameProcessed(i, s) ==
    /\ frames'[i][s] # <<>>
    /\ frames'[i][s] # frames[i][s] \/ cv'[i][s] # cv[i][s]

CeilBlocks(x, unit) == CHOOSE k \in 0..(x + 1) : unit * (k - 1) < x /\ x <= unit * k

\* the costs quoted for 10 per hour, by minutes
Quoted == (1 :> 5) @@ (30 :> 5) @@ (31 :> 10) @@ (60 :> 10) @@ (61 :> 15)

\* C6: a session of d whole minutes at p per hour costs p * ceil(d/30) * 30/60
\* (the result is in halves of the currency unit, so twice that): 5, 5, 10, 10,
\* 15 for 1, 30, 31, 60, 61 minutes at 10 per hour, two blocks for 45 minutes.
CostIsCeilOfHalfHours ==
    (call.fn = "cost" /\ call.done) =>
        /\ call.result = call.price * CeilBlocks(call.minutes, 30)
        /\ (call.price = 10 /\ call.minutes \in DOMAIN Quoted) =>
               call.result = 2 * Quoted[call.minutes]
        /\ call.minutes = 45 => call.result = call.price * 2

\* 61 minutes at 10 per hour have been priced 15
SixtyOneMinutesPriced ==
    /\ call.fn = "cost" /\ call.done
    /\ call.price = 10 /\ call.minutes = 61
    /\ call.result = 2 * 15

\* upper-casing and the permitted characters, as the contract states them
UpperOf(c) ==
    IF c = "a" THEN "A" ELSE IF c = "b" THEN "B" ELSE IF c = "c" THEN "C"
    ELSE IF c = "d" THEN "D" ELSE c
Permitted == {"A", "B", "C", "D", "1", "2", "3"}

RECURSIVE Stripped(_)
Stripped(x) ==
    IF x = <<>> THEN <<>>
    ELSE IF UpperOf(Head(x)) \in Permitted
    THEN <<UpperOf(Head(x))>> \o Stripped(Tail(x))
    ELSE Stripped(Tail(x))

Min3(a, b, c) == IF a <= b /\ a <= c THEN a ELSE IF b <= c THEN b ELSE c

\* the Levenshtein distance by its defining recursion: deleting, inserting or
\* substituting the first character
RECURSIVE EditDistance(_, _)
EditDistance(x, y) ==
    IF x = <<>> THEN Len(y)
    ELSE IF y = <<>> THEN Len(x)
    ELSE Min3(EditDistance(Tail(x), y) + 1,
              EditDistance(x, Tail(y)) + 1,
              EditDistance(Tail(x), Tail(y)) + (IF Head(x) = Head(y) THEN 0 ELSE 1))

\* C7: a reading a matches a stored plate b exactly when the Levenshtein
\* distance between their normalized forms is 0 or 1, where normalizing
\* upper-cases and drops every character outside A-Z and 0-9.
FuzzyMatchIsDistanceBelowTwo ==
    (call.fn = "match" /\ call.done) =>
        /\ normalize_license_plate(call.a) = Stripped(call.a)
        /\ normalize_license_plate(call.b) = Stripped(call.b)
        /\ call.result = (EditDistance(Stripped(call.a), Stripped(call.b)) <= 1)
        /\ levenshtein_distance(Stripped(call.a), Stripped(call.b))
               = EditDistance(Stripped(call.a), Stripped(call.b))

\* a reading typed with a hyphen and in lower case has matched a plate that is
\* one character longer
MatchedAtDistanceOne ==
    /\ call.fn = "match" /\ call.done /\ call.result
    /\ call.a = <<"B", "-", "b">>
    /\ call.b = <<"B", "B", "1">>

\* the confirmed bookings of slot s made for the plate read as p
ConfirmedFor(p, s) ==
    {b \in BookingIds : /\ bookings[b].status = "confirmed"
                        /\ bookings[b].slot = s
                        /\ bookings[b].plate = Stripped(p)}

AbandonedBookingIsFreed ==
    \A b \in 1..MaxBookings :
        []((/\ b \in BookingIds
            /\ bookings[b].status \in Pending
            /\ bookings[b].expires_at < now)
           => <>(/\ b \in BookingIds
                 /\ bookings[b].status = "expired"
                 /\ slotStatus[bookings[b].slot] = "available"))

\* C10: when an initiate that had taken the lock, or a confirm of a booking
\* still pending, has answered with a failure, the driver no longer holds the
\* slot's lock.
FailureReleasesLock ==
    (/\ resp.op \in {"initiate", "confirm"}
     /\ resp.outcome \in {"vehicle_not_found", "slot_not_found", "slot_unavailable",
                          "lot_closed", "conflict", "gone", "error500"})
    => lock[resp.slot].holder # resp.driver

\* C11: a confirm that completes after the reconciler's write of occupied to
\* the slot row does not answer confirmed and does not leave the slot
\* reserved: a slot already marked occupied is never made reserved by confirm.
OccupiedSlotIsNotConfirmed ==
    [][\A d \in Drivers :
          (/\ pc[d] \in {"c_commit", "c_cancel"}
           /\ pc'[d] = "idle"
           /\ slotStatus[req[d].slot] = "occupied") =>
              /\ resp'.outcome # "confirmed"
              /\ slotStatus'[req[d].slot] # "reserved"]_vars

\* C12: a frame the reconciler processes writes nothing but available or
\* occupied to a slot row, and leaves the row of a slot that is reserved as it
\* is, also when the booking was confirmed after the instance had started.
ReconcilerKeepsReserved ==
    [][\A i \in Instances : \A s \in Slots :
          cv'[i][s] # cv[i][s] =>
              /\ slotStatus'[s] # slotStatus[s] =>
                     slotStatus'[s] \in {"available", "occupied"}
              /\ slotStatus[s] = "reserved" => slotStatus'[s] = "reserved"]_vars

\* the active sessions of slot s in a sessions table, and all its sessions
ActiveIn(ss, s) == {k \in 1..Len(ss) : ss[k].slot = s /\ ss[k].status = "active"}
SessionsOf(ss, s) == {k \in 1..Len(ss) : ss[k].slot = s}

\* C13: no slot ever has two active sessions, and a frame that reports an
\* arrival on a slot with an active session adds no session, whatever the
\* arrivals, late plate readings and departures the live views of the lot see.
OneActiveSessionPerSlot ==
    [][\A s \in Slots :
          /\ Cardinality(ActiveIn(sessions', s)) <= 1
          /\ ActiveIn(sessions, s) # {} => SessionsOf(sessions', s) = SessionsOf(sessions, s)]_vars

\* both live views have seen the vehicle arrive and have read its plate, the
\* second after the first, and the slot has the one session the first opened
SecondArrivalOpensNothing ==
    /\ \A i \in Instances : cv[i][1].status = "occupied" /\ cv[i][1].plate # NoPlate
    /\ Len(sessions) = 1
    /\ sessions[1].status = "active"
    /\ sessions[1].start_time < now

\* C14: the status of a booking changes only from initiated or locked to
\* confirmed, expired or canceled, and from confirmed to canceled; it becomes
\* confirmed only while expires_at has not passed; an expired or canceled
\* booking keeps its status, however confirm, cancel and the sweep interleave.
BookingStatusEdges ==
    [][\A b \in BookingIds :
          LET old == bookings[b].status
              new == bookings'[b].status
          IN old # new =>
                /\ \/ old \in Pending /\ new \in {"confirmed", "expired", "canceled"}
                   \/ old = "confirmed" /\ new = "canceled"
                /\ new = "confirmed" => ~(bookings[b].expires_at < now)]_vars

\* C15: while the lock store is unreachable every initiate gets past the
\* acquire; an initiate that validates against a slot with a committed
\* non-terminal booking is rejected and creates no booking; and so no slot
\* ends up with two non-terminal bookings.
OutageKeepsOneBookingPerSlot ==
    [][~redisUp =>
          /\ \A d \in Drivers : \A s \in SlotIds :
                /\ InitiateCalled(d, s) => pc'[d] = "i_validate"
                /\ (pc[d] = "i_validate" /\ req[d].slot = s /\ pc'[d] # "i_validate"
                    /\ s \in Slots /\ NonTerminalOn(s) # {}) =>
                       /\ pc'[d] = "idle"
                       /\ resp'.outcome \in {"conflict", "vehicle_not_found", "lot_closed"}
                       /\ bookings' = bookings
          /\ \A s \in Slots : Cardinality(NonTerminalOn(s)') <= 1]_vars

\* C16: whoever writes a slot's status (confirm, cancel, the sweep, a
\* reconciler instance) replaces the status it read when it decided to write:
\* a change made by another writer in between is not overwritten.
SlotWritesAreConditional ==
    [][\A s \in Slots :
          slotStatus'[s] # slotStatus[s] =>
              \/ \E d \in Drivers : /\ pc[d] \in {"c_commit", "k_commit"}
                                    /\ pc'[d] = "idle"
                                    /\ req[d].slot = s
                                    /\ req[d].snapSlot = slotStatus[s]
              \/ /\ swPc = "s_loop" /\ swPc' = "idle"
                 /\ sw.loaded[s] = slotStatus[s]
              \/ \E i \in Instances : /\ cv'[i][s] # cv[i][s]
                                      /\ cv[i][s].last_published_status = slotStatus[s]]_vars

\* C17: an initiate that succeeds adds one booking and changes no other: the
\* new booking is initiated, the caller's, for the slot asked for, and expires
\* lock_ttl seconds from now; the step leaves the lock and every slot status as
\* they are.  A slot becomes reserved only in the step in which a confirm
\* answers confirmed for it.
InitiateCreatesOneBooking ==
    [][/\ \A d \in Drivers :
            (pc[d] = "i_commit" /\ resp'.driver = d /\ resp'.outcome = "created") =>
                /\ Len(bookings') = Len(bookings) + 1
                /\ SubSeq(bookings', 1, Len(bookings)) = bookings
                /\ resp'.bid = Len(bookings')
                /\ LET new == bookings'[Len(bookings')]
                   IN /\ new.status = "initiated"
                      /\ new.driver = d
                      /\ new.slot = req[d].slot
                      /\ (new.expires_at - now) * SecondsPerTick = lock_ttl
                /\ lock' = lock
                /\ slotStatus' = slotStatus
       /\ \A s \in Slots :
            (slotStatus'[s] = "reserved" /\ slotStatus[s] # "reserved") =>
                /\ resp'.op = "confirm"
                /\ resp'.outcome = "confirmed"
                /\ resp'.slot = s]_vars

\* B's initiate has just created the slot's second booking, the first having
\* been canceled: B holds the lock and the slot is still available
SecondBookingCreated ==
    /\ resp.op = "initiate" /\ resp.outcome = "created" /\ resp.driver = "B"
    /\ resp.bid = 2
    /\ bookings[1].status = "canceled"
    /\ bookings[2].status = "initiated"
    /\ bookings[2].expires_at = now + TicksPerTtl
    /\ lock[resp.slot].holder = "B"
    /\ slotStatus[resp.slot] = "available"

\* C18: a frame processed for a slot whose last_published_status is reserved
\* or unavailable leaves the slot's status, last_published_status and both
\* counters as they are, writes no slot row, reports no transition and leaves
\* the sessions as they are.
UntrackedSlotIsLeftAlone ==
    [][\A i \in Instances : \A s \in Slots :
          (/\ cv[i][s].last_published_status \in {"reserved", "unavailable"}
           /\ FrameProcessed(i, s)) =>
              /\ cv'[i][s] = cv[i][s]
              /\ slotStatus' = slotStatus
              /\ sessions' = sessions
              /\ event' = NoEvent]_vars

\* a live view started after the booking was confirmed has been shown three
\* occupied frames of the reserved slot
ReservedSlotShownOccupied ==
    /\ cv[1][1].last_published_status = "reserved"
    /\ frames[1][1] = <<TRUE, TRUE, TRUE>>
    /\ slotStatus[1] = "reserved"
    /\ \E b \in BookingIds : bookings[b].status = "confirmed"

VehiclesNear(p, plates) ==
    {k \in 1..Len(plates) : EditDistance(Stripped(p), Stripped(plates[k])) <= 1}

\* an arrival has just been handled
ArrivalHandled == call.fn = "arrival" /\ ~call.done /\ call'.done

\* C21: an arrival whose plate is within one edit of no vehicle's plate opens
\* no session and changes no session, booking or slot; a plate that normalizes
\* to the empty string matches the vehicles whose plate has at most one
\* character and no other, so none of a table whose plates are longer.
StrangerOpensNothing ==
    [][ArrivalHandled =>
          /\ VehiclesNear(call.plate, call.vehicles) = {} =>
                 /\ call'.result = 0
                 /\ sessions' = sessions
                 /\ bookings' = bookings
                 /\ slotStatus' = slotStatus
          /\ Stripped(call.plate) = <<>> =>
                 (call'.result # 0) =
                     (\E k \in 1..Len(call.vehicles) : Len(Stripped(call.vehicles[k])) <= 1)]_vars

\* C21 as stated: a plate that normalizes to the empty string matches no
\* vehicle, whatever the vehicles, and opens no session.
EmptyPlateMatchesNothing ==
    (call.fn = "arrival" /\ call.done /\ Stripped(call.plate) = <<>>) =>
        (call.result = 0 /\ sessions = <<>>)

\* a text of hyphens has been shown against the application's vehicles while A
\* has a confirmed booking, and nothing was opened
HyphensOpenNothing ==
    /\ call.fn = "arrival" /\ call.done
    /\ call.plate = <<"-", "-">>
    /\ call.vehicles = StoredPlates
    /\ call.slot \in Slots
    /\ call.result = 0
    /\ sessions = <<>>
    /\ \E b \in BookingIds : bookings[b].status = "confirmed"

\* the confirmed bookings of slot s whose plate is the normalized reading p
ConfirmedBookingsOf(p, s) ==
    {b \in BookingIds : /\ bookings[b].status = "confirmed"
                        /\ bookings[b].slot = s
                        /\ bookings[b].plate = Stripped(p)}

\* C22: the session an arrival opens is active, starts at the time of the
\* observation, is for the slot and the normalized plate observed, and carries
\* the id of a confirmed booking of that plate and slot when there is one and no
\* booking id otherwise; the booking looked up is never one that is initiated,
\* expired or canceled, nor one of another slot.
ArrivalAttachesConfirmedBooking ==
    [][ArrivalHandled =>
          /\ IF ConfirmedBookingsOf(call.plate, call.slot) = {}
             THEN call'.booking = 0
             ELSE call'.booking \in ConfirmedBookingsOf(call.plate, call.slot)
          /\ sessions' # sessions =>
                /\ Len(sessions') = Len(sessions) + 1
                /\ SubSeq(sessions', 1, Len(sessions)) = sessions
                /\ LET new == sessions'[Len(sessions')]
                   IN /\ new.status = "active"
                      /\ new.start_time = now
                      /\ new.slot = call.slot
                      /\ new.plate = Stripped(call.plate)
                      /\ new.booking_id = call'.booking]_vars

\* A's arrival has been attached to A's confirmed booking, the second row, the
\* first being A's canceled booking of the same plate and slot
CanceledBookingPassedOver ==
    /\ call.fn = "arrival" /\ call.done
    /\ call.plate = <<"a", "b", "-", "1">>
    /\ Len(bookings) = 2
    /\ bookings[1].status = "canceled" /\ bookings[1].plate = VehiclePlate("A")
    /\ bookings[2].status = "confirmed" /\ bookings[2].plate = VehiclePlate("A")
    /\ Len(sessions) = 1
    /\ sessions[1].booking_id = 2
    /\ sessions[1].status = "active"
    /\ sessions[1].start_time = now
    /\ now > 0

\* C23: when a session is opened for a reading that is within one edit of the
\* plate of a confirmed booking of the slot, the session carries the id of such
\* a booking and is not a walk-in.
MisreadArrivalIsAttributed ==
    [][(ArrivalHandled /\ sessions' # sessions) =>
          LET near == {b \in BookingIds :
                          /\ bookings[b].status = "confirmed"
                          /\ bookings[b].slot = call.slot
                          /\ EditDistance(Stripped(call.plate), bookings[b].plate) <= 1}
          IN near # {} => sessions'[Len(sessions')].booking_id \in near]_vars

\* the step reports, or is, the transition of slot s from occupied to available
DepartureOf(s) ==
    \/ /\ call.fn = "transition" /\ ~call.done /\ call'.done
       /\ call.slot = s /\ call.old = "occupied" /\ call.new = "available"
    \/ /\ event' # NoEvent /\ event'.slot = s
       /\ event'.old = "occupied" /\ event'.new = "available"

\* C24: a session row changes only from active to completed, with its end
\* time, duration and cost set, and only in a step that is a transition of its
\* own slot from occupied to available; such a transition on a slot without an
\* active session changes no session.
SessionClosesOnlyAtDeparture ==
    [][/\ Len(sessions') >= Len(sessions)
       /\ \A k \in 1..Len(sessions) :
            sessions'[k] # sessions[k] =>
                /\ DepartureOf(sessions[k].slot)
                /\ sessions[k].status = "active"
                /\ sessions'[k] =
                       [sessions[k] EXCEPT
                           !.status = "completed",
                           !.end_time = now,
                           !.total_duration_seconds =
                               (now - sessions[k].start_time) * SecondsPerTick,
                           !.parking_cost =
                               price_per_hour
                               * CeilBlocks((now - sessions[k].start_time) * SecondsPerTick,
                                            30 * 60)]
       /\ \A s \in SlotIds :
            (DepartureOf(s) /\ ActiveIn(sessions, s) = {}) => sessions' = sessions]_vars

\* the departure from the slot has closed its active session and left the
\* earlier, completed one as it was
DepartureClosedTheSession ==
    /\ call.fn = "transition" /\ call.done
    /\ call.slot = 1 /\ call.old = "occupied" /\ call.new = "available"
    /\ now = 2
    /\ Len(sessions) = 2
    /\ sessions[1] = SessionRow("completed")
    /\ sessions[2].status = "completed"
    /\ sessions[2].end_time = 2
    /\ sessions[2].total_duration_seconds = 2 * SecondsPerTick
    /\ sessions[2].parking_cost = price_per_hour

\* C25: a cancel that goes through leaves its booking canceled, with the time
\* of cancellation, and the slot's lock released; and no step takes a slot from
\* reserved back to available while a booking of the slot is still confirmed.
CancelRevertsOnlyItsOwnReservation ==
    [][/\ \A d \in Drivers :
            (pc[d] = "k_commit" /\ resp'.driver = d /\ resp'.outcome = "canceled") =>
                /\ bookings'[req[d].bid].status = "canceled"
                /\ bookings'[req[d].bid].canceled_at = now
                /\ lock'[req[d].slot] = NoLock
       /\ \A s \in Slots :
            (slotStatus[s] = "reserved" /\ slotStatus'[s] = "available") =>
                ~ \E b \in 1..Len(bookings') :
                      /\ bookings'[b].slot = s
                      /\ bookings'[b].status = "confirmed"]_vars

\* C26: an initiate passes validation only when its slot exists with status
\* available or reserved, no booking of the slot is initiated, locked or
\* confirmed, and the time is within the opening hours, and only an initiate
\* that passed can create a booking; an initiate that fails validation answers
\* the error of a check that does fail, and leaves the bookings and the slot
\* statuses as they were and the slot's lock released.
InitiateValidates ==
    [][\A d \in Drivers :
         LET s == req[d].slot
         IN /\ (pc[d] = "i_validate" /\ pc'[d] = "i_commit") =>
                  /\ s \in Slots
                  /\ slotStatus[s] \in {"available", "reserved"}
                  /\ NonTerminalOn(s) = {}
                  /\ open_time <= now /\ now <= close_time
            /\ (resp'.driver = d /\ resp'.op = "initiate" /\ resp'.outcome = "created"
                /\ pc[d] # "idle" /\ pc'[d] = "idle") =>
                  pc[d] = "i_commit"
            /\ (pc[d] = "i_validate" /\ pc'[d] = "idle") =>
                  /\ resp'.driver = d /\ resp'.op = "initiate" /\ resp'.slot = s
                  /\ \/ resp'.outcome = "vehicle_not_found"
                        /\ Stripped(req[d].plate) # VehiclePlate(d)
                     \/ resp'.outcome = "slot_not_found" /\ s \notin Slots
                     \/ resp'.outcome = "slot_unavailable" /\ s \in Slots
                        /\ slotStatus[s] \notin {"available", "reserved"}
                     \/ resp'.outcome = "lot_closed"
                        /\ (now < open_time \/ now > close_time)
                     \/ resp'.outcome = "conflict" /\ s \in Slots
                        /\ NonTerminalOn(s) # {}
                  /\ bookings' = bookings
                  /\ slotStatus' = slotStatus
                  /\ lock'[s] = NoLock]_vars

\* B's initiate on the slot A's confirmed booking reserves has answered
\* conflict and its lock is gone
InitiateRefusedForConflict ==
    /\ resp.driver = "B" /\ resp.op = "initiate" /\ resp.outcome = "conflict"
    /\ lock[1] = NoLock
    /\ Len(bookings) = 1
    /\ bookings[1].driver = "A" /\ bookings[1].status = "confirmed"
    /\ slotStatus[1] = "reserved"

\* C27: while an initiate is between its acquire and its commit and the slot's
\* lock is the one it acquired, no step of another handler or of the sweep
\* changes that lock.
ReleaseSparesAnotherDriversLock ==
    [][\A s \in Slots : \A d \in Drivers :
         (/\ pc[d] \in {"i_validate", "i_commit"}
          /\ req[d].slot = s
          /\ lock[s].holder = d
          /\ pc'[d] = pc[d]) =>
             lock'[s] = lock[s]]_vars

\* C28: once the session of a booking is completed and its slot is available
\* again, the booking is no longer among the initiated, locked or confirmed
\* bookings of the slot, which are what refuses another driver's initiate.
FinishedBookingFreesSlot ==
    \A i \in SessionIds :
        (/\ sessions[i].status = "completed"
         /\ sessions[i].booking_id \in BookingIds
         /\ slotStatus[sessions[i].slot] = "available") =>
            sessions[i].booking_id \notin NonTerminalOn(sessions[i].slot)

\* C29: whenever no booking handler and no sweep is under way, the status a
\* running live view last published for a slot is the slot's persisted status,
\* and so the slots it treats as mutable are those whose persisted status is
\* available or occupied.
ReconcilerFollowsSlotTable ==
    (\A d \in Drivers : pc[d] = "idle") /\ swPc = "idle" =>
        \A i \in Instances : \A s \in Slots :
            cv[i][s] # NoSlotState =>
                /\ cv[i][s].last_published_status = slotStatus[s]
                /\ cv[i][s].last_published_status \in {"available", "occupied"}
                       <=> slotStatus[s] \in {"available", "occupied"}

\* C30: in every state, a slot whose persisted status is reserved has exactly
\* one confirmed booking.
ReservedSlotHasOneConfirmedBooking ==
    \A s \in Slots :
        slotStatus[s] = "reserved" =>
            Cardinality({b \in BookingIds : /\ bookings[b].slot = s
                                            /\ bookings[b].status = "confirmed"}) = 1

====
